---- MODULE Spec2Model ----
(***************************************************************************)
(* Loan-origination chatbot: the session registry of main.py, the master   *)
(* agent's orchestration, the sales / verification / underwriting worker   *)
(* agents and the sanction-letter generator.                                *)
(*                                                                         *)
(* Text is a sequence of one-character strings.  A Python float is a       *)
(* record [nan, v] with v in hundredths (paise); interest rates are in     *)
(* hundredths of a percent.  An optional dict key is <<>> when absent and  *)
(* <<value>> when present.                                                 *)
(***************************************************************************)
EXTENDS Integers, Sequences, FiniteSets, TLC

\* ------------------------------------------------------------------------
\* Arbitrary-precision naturals: little-endian limbs in base 1000, no
\* leading zero limb (zero is <<>>).  They carry the exact value of the
\* amortisation formula, whose powers do not fit a machine integer.
\* Carries are resolved without recursion over the limbs.
\* ------------------------------------------------------------------------
BASE == 1000

\* e, with the number v computed first (keeps the evaluation of long chains
\* of intermediate results shallow)
Eval(v, e) == IF Len(v) >= 0 THEN e ELSE e

Limb(s, i) == IF i >= 1 /\ i <= Len(s) THEN s[i] ELSE 0

\* one carry pass: every limb keeps its low part and receives the high part
\* of the limb below
BigPass(s) == [i \in 1..(Len(s) + 1) |-> (Limb(s, i) % BASE) + (Limb(s, i - 1) \div BASE)]

BigStrip(s) ==
    LET nz == {i \in 1..Len(s) : s[i] # 0}
    IN  IF nz = {} THEN <<>>
        ELSE SubSeq(s, 1, CHOOSE i \in nz : \A k \in nz : k <= i)

\* limbs in 0..BASE: a limb equal to BASE generates a carry, BASE-1 passes it on
BigRipple(s) ==
    LET gen == {j \in 1..Len(s) : s[j] = BASE}
        cin(i) == \E j \in gen : j < i /\ \A m \in (j + 1)..(i - 1) : s[m] = BASE - 1
    IN  IF gen = {} THEN s
        ELSE [i \in 1..(Len(s) + 1) |-> (Limb(s, i) + (IF cin(i) THEN 1 ELSE 0)) % BASE]

\* the number whose limbs (each below 2^31) are s
BigNorm(s) == BigStrip(BigRipple(BigPass(BigPass(BigPass(BigPass(s))))))

BigFromInt(n) == BigNorm(<<n>>)

\* a * k for a machine integer 0 <= k <= 2000000
BigMulSmall(a, k) == BigNorm([i \in 1..Len(a) |-> a[i] * k])

BigAdd(a, b) ==
    LET n == IF Len(a) > Len(b) THEN Len(a) ELSE Len(b)
    IN  BigNorm([i \in 1..n |-> Limb(a, i) + Limb(b, i)])

\* divide-and-conquer sum of f over lo..hi
RECURSIVE SumRange(_, _, _)
SumRange(f, lo, hi) ==
    IF lo > hi THEN 0
    ELSE IF lo = hi THEN f[lo]
    ELSE LET mid == (lo + hi) \div 2
         IN  SumRange(f, lo, mid) + SumRange(f, mid + 1, hi)

\* schoolbook product by columns
BigMul(a, b) ==
    IF a = <<>> \/ b = <<>> THEN <<>>
    ELSE LET col(j) ==
                 LET lo == IF j - Len(b) + 1 > 1 THEN j - Len(b) + 1 ELSE 1
                     hi == IF j < Len(a) THEN j ELSE Len(a)
                 IN  SumRange([i \in lo..hi |-> a[i] * b[j - i + 1]], lo, hi)
         IN  BigNorm([j \in 1..(Len(a) + Len(b) - 1) |-> col(j)])

\* a - b for a >= b: a negative limb difference borrows, a zero one passes
\* the borrow on
BigSub(a, b) ==
    LET d == [i \in 1..Len(a) |-> a[i] - Limb(b, i)]
        bin(i) ==
            IF i = 1 THEN FALSE
            ELSE IF d[i - 1] # 0 THEN d[i - 1] < 0
            ELSE \E j \in 1..(i - 2) : d[j] < 0 /\ \A m \in (j + 1)..(i - 1) : d[m] = 0
    IN  BigStrip([i \in 1..Len(a) |-> (d[i] - (IF bin(i) THEN 1 ELSE 0)) % BASE])

\* -1, 0, 1 as a < b, a = b, a > b
BigCmp(a, b) ==
    IF Len(a) < Len(b) THEN -1
    ELSE IF Len(a) > Len(b) THEN 1
    ELSE LET df == {i \in 1..Len(a) : a[i] # b[i]}
         IN  IF df = {} THEN 0
             ELSE LET top == CHOOSE i \in df : \A k \in df : k <= i
                  IN  IF a[top] < b[top] THEN -1 ELSE 1

BigLeq(a, b) == BigCmp(a, b) <= 0

\* k^n by squaring
BigSquare(h) == Eval(h, BigMul(h, h))
BigPowOdd(sq, k, n) == Eval(sq, IF n % 2 = 1 THEN BigMulSmall(sq, k) ELSE sq)
RECURSIVE BigPowSmall(_, _)
BigPowSmall(k, n) ==
    IF n = 0 THEN <<1>>
    ELSE BigPowOdd(BigSquare(BigPowSmall(k, n \div 2)), k, n)

\* a * BASE^k
BigShift(a, k) == IF a = <<>> THEN <<>> ELSE [i \in 1..k |-> 0] \o a

\* the largest q in lo..hi with q * b <= a, by bisection (lo * b <= a)
RECURSIVE BigQuotLimb(_, _, _, _)
BigQuotLimb(a, b, lo, hi) ==
    IF lo = hi THEN lo
    ELSE LET mid == (lo + hi + 1) \div 2
         IN  IF BigLeq(BigMulSmall(b, mid), a)
             THEN BigQuotLimb(a, b, mid, hi)
             ELSE BigQuotLimb(a, b, lo, mid - 1)

\* long division, one limb of the quotient per step
RECURSIVE BigDivStep(_, _, _, _)
\* with the quotient limb d of r by bk = b * BASE^k
BigDivNext(r, b, k, q, bk, d) ==
    BigDivStep(BigSub(r, BigMulSmall(bk, d)), b, k - 1, q * BASE + d)
BigDivLimb(r, b, k, q, bk) ==
    Eval(r, Eval(bk, BigDivNext(r, b, k, q, bk, BigQuotLimb(r, bk, 0, BASE - 1))))
BigDivStep(r, b, k, q) ==
    IF k < 0 THEN [q |-> q, r |-> r]
    ELSE BigDivLimb(r, b, k, q, BigShift(b, k))

\* quotient (a machine integer below 10^9) and remainder of a / b, b > 0
BigDivMod(a, b) == BigDivStep(a, b, 2, 0)

\* q, moved up when twice the remainder compares c = 1 with the divisor, and
\* to the even neighbour when it compares 0
BigTie(q, c) ==
    IF c < 0 THEN q
    ELSE IF c > 0 THEN q + 1
    ELSE IF q % 2 = 0 THEN q ELSE q + 1
BigRound(dm, den) == BigTie(dm.q, BigCmp(BigMulSmall(dm.r, 2), den))
\* num / den rounded to the nearest integer, ties to even
BigDivRound(num, den) == BigRound(BigDivMod(num, den), den)

\* the neighbours a rounding can produce: both when the exact quotient lies
\* half way between them, as the double that round() receives then lies on
\* either side of the middle
BigRoundings(dm, den) ==
    IF BigCmp(BigMulSmall(dm.r, 2), den) = 0 THEN {dm.q, dm.q + 1} ELSE {BigRound(dm, den)}

\* ------------------------------------------------------------------------
\* Floats
\* ------------------------------------------------------------------------
NaN == [nan |-> TRUE, v |-> 0]
Num(c) == [nan |-> FALSE, v |-> c]
Rupees(n) == Num(n * 100)

\* IEEE comparisons: every comparison with NaN is false
FLt(a, b) == ~a.nan /\ ~b.nan /\ a.v < b.v
FLe(a, b) == ~a.nan /\ ~b.nan /\ a.v <= b.v
FGt(a, b) == ~a.nan /\ ~b.nan /\ a.v > b.v

\* ------------------------------------------------------------------------
\* Financial calculator
\* ------------------------------------------------------------------------
RATE_DEN == 120000

\* principal in paise, annual_rate in hundredths of a percent.  With
\*   monthly_rate = annual_rate / (12 * 100) = R / D   (D = 120000 here)
\*   emi = P * (R/D) * (D+R)^n / ((D+R)^n - D^n), rounded to 2 decimals.
\* The zero-rate branch returns the quotient unrounded; the model carries it
\* to the nearest paisa.  Below, up = (D+R)^n and dn = D^n.
EmiQuotient(num, den) == Eval(num, Eval(den, BigDivRound(num, den)))
EmiOfPowers(principal, annual_rate, up, dn) ==
    Eval(up, Eval(dn,
        Num(EmiQuotient(BigMul(BigMulSmall(up, annual_rate), BigFromInt(principal.v)),
                        BigMulSmall(BigSub(up, dn), RATE_DEN)))))
\* the values round(emi, 2) can return for a rate above 0
EmiRoundingsOf(num, den) ==
    Eval(num, Eval(den, {Num(q) : q \in BigRoundings(BigDivMod(num, den), den)}))
EmiRoundingsOfPowers(principal, annual_rate, up, dn) ==
    Eval(up, Eval(dn,
        EmiRoundingsOf(BigMul(BigMulSmall(up, annual_rate), BigFromInt(principal.v)),
                       BigMulSmall(BigSub(up, dn), RATE_DEN))))
calculate_emi_roundings(principal, annual_rate, tenure_months) ==
    EmiRoundingsOfPowers(principal, annual_rate,
                         BigPowSmall(RATE_DEN + annual_rate, tenure_months),
                         BigPowSmall(RATE_DEN, tenure_months))

\* an instalment cut down to whole rupees
calculate_emi_whole_rupees(principal, annual_rate, tenure_months) ==
    IF principal.nan THEN NaN
    ELSE IF annual_rate = 0
    THEN Num(BigDivRound(BigFromInt(principal.v), BigFromInt(tenure_months)))
    ELSE Rupees(EmiOfPowers(principal, annual_rate,
                            BigPowSmall(RATE_DEN + annual_rate, tenure_months),
                            BigPowSmall(RATE_DEN, tenure_months)).v \div 100)

calculate_emi(principal, annual_rate, tenure_months) ==
    IF principal.nan THEN NaN
    ELSE IF annual_rate = 0
    THEN Num(BigDivRound(BigFromInt(principal.v), BigFromInt(tenure_months)))
    ELSE EmiOfPowers(principal, annual_rate,
                     BigPowSmall(RATE_DEN + annual_rate, tenure_months),
                     BigPowSmall(RATE_DEN, tenure_months))

\* max_emi in paise; the result is rounded to the whole rupee
\*   loan = max_emi * ((D+R)^n - D^n) * D / (R * (D+R)^n)
MaxLoanOfPowers(max_emi, annual_rate, up, dn) ==
    Eval(up, Eval(dn,
        Rupees(EmiQuotient(BigMul(BigMulSmall(BigSub(up, dn), RATE_DEN), BigFromInt(max_emi.v)),
                           BigMulSmall(BigMulSmall(up, annual_rate), 100)))))
\* the largest loan with the interest left out
calculate_max_loan_without_interest(max_emi, annual_rate, tenure_months) ==
    IF max_emi.nan THEN NaN
    ELSE Rupees(BigDivRound(BigFromInt(max_emi.v * tenure_months), BigFromInt(100)))

calculate_max_loan_for_emi(max_emi, annual_rate, tenure_months) ==
    IF max_emi.nan THEN NaN
    ELSE IF annual_rate = 0 THEN Num(max_emi.v * tenure_months)
    ELSE MaxLoanOfPowers(max_emi, annual_rate,
                         BigPowSmall(RATE_DEN + annual_rate, tenure_months),
                         BigPowSmall(RATE_DEN, tenure_months))
\* ------------------------------------------------------------------------
\* Text
\* ------------------------------------------------------------------------
Digits == <<"0", "1", "2", "3", "4", "5", "6", "7", "8", "9">>
Upper == <<"A", "B", "C", "D", "E", "F", "G", "H", "I", "J", "K", "L", "M",
           "N", "O", "P", "Q", "R", "S", "T", "U", "V", "W", "X", "Y", "Z">>
Lower == <<"a", "b", "c", "d", "e", "f", "g", "h", "i", "j", "k", "l", "m",
           "n", "o", "p", "q", "r", "s", "t", "u", "v", "w", "x", "y", "z">>
Whitespace == {" ", "TAB"}

IsDigit(c) == \E i \in 1..10 : Digits[i] = c
DigitVal(c) == (CHOOSE i \in 1..10 : Digits[i] = c) - 1

\* str.isdigit(): non-empty and every character a digit
isdigit(s) == Len(s) > 0 /\ \A i \in 1..Len(s) : IsDigit(s[i])

LowerChar(c) == IF \E i \in 1..26 : Upper[i] = c
                THEN Lower[CHOOSE i \in 1..26 : Upper[i] = c] ELSE c

\* str.lower()
lower(s) == [i \in 1..Len(s) |-> LowerChar(s[i])]

\* str.replace(ch, "") for a one-character ch
remove(s, ch) == SelectSeq(s, LAMBDA c : c # ch)

\* str.strip(): drop leading and trailing whitespace
strip(s) ==
    LET keep == {i \in 1..Len(s) : s[i] \notin Whitespace}
    IN  IF keep = {} THEN <<>>
        ELSE SubSeq(s, CHOOSE i \in keep : \A k \in keep : i <= k,
                       CHOOSE i \in keep : \A k \in keep : k <= i)

\* the natural number written by a sequence of decimal digits
DigitsToBig(ds) ==
    LET n == Len(ds)
        dg(i) == IF i >= 1 THEN DigitVal(ds[i]) ELSE 0
    IN  BigStrip([j \in 1..((n + 2) \div 3) |->
                    100 * dg(n - 3 * j + 1) + 10 * dg(n - 3 * j + 2) + dg(n - 3 * j + 3)])

\* the machine integer of a number below 10^9
BigToInt(a) == Limb(a, 1) + BASE * Limb(a, 2) + BASE * BASE * Limb(a, 3)

\* a leading sign, and the text after it
Negative(t) == Len(t) > 0 /\ t[1] = "-"
Unsigned(t) == IF Len(t) > 0 /\ t[1] \in {"+", "-"} THEN SubSeq(t, 2, Len(t)) ELSE t

\* the position of the decimal point, Len + 1 when there is none, 0 when
\* there are several
DotOf(body, dots) ==
    IF dots = {} THEN Len(body) + 1
    ELSE IF Cardinality(dots) = 1 THEN CHOOSE i \in dots : TRUE
    ELSE 0

\* integer part ip and fraction fp of a decimal literal
FloatOfParts(neg, ip, fp) ==
    IF /\ Len(ip) + Len(fp) > 0
       /\ \A i \in 1..Len(ip) : IsDigit(ip[i])
       /\ \A i \in 1..Len(fp) : IsDigit(fp[i])
    THEN [ok |-> TRUE, nan |-> FALSE, inf |-> FALSE, neg |-> neg,
          mag |-> DigitsToBig(ip \o SubSeq(fp \o <<"0", "0">>, 1, 2))]
    ELSE [ok |-> FALSE, nan |-> FALSE, inf |-> FALSE, neg |-> FALSE, mag |-> <<>>]

FloatOfDecimal(neg, body, dot) ==
    IF dot = 0
    THEN [ok |-> FALSE, nan |-> FALSE, inf |-> FALSE, neg |-> FALSE, mag |-> <<>>]
    ELSE FloatOfParts(neg, SubSeq(body, 1, dot - 1), SubSeq(body, dot + 1, Len(body)))

FloatOfBody(neg, body, word) ==
    IF word = <<"n", "a", "n">>
    THEN [ok |-> TRUE, nan |-> TRUE, inf |-> FALSE, neg |-> neg, mag |-> <<>>]
    ELSE IF word \in {<<"i", "n", "f">>, <<"i", "n", "f", "i", "n", "i", "t", "y">>}
    THEN [ok |-> TRUE, nan |-> FALSE, inf |-> TRUE, neg |-> neg, mag |-> <<>>]
    ELSE FloatOfDecimal(neg, body, DotOf(body, {i \in 1..Len(body) : body[i] = "."}))

FloatOfStripped(t) == FloatOfBody(Negative(t), Unsigned(t), lower(Unsigned(t)))

\* float(text).  The result is [ok, nan, inf, neg, mag]: ok is FALSE for a
\* ValueError; mag is the magnitude in paise.  Covered syntax: surrounding
\* whitespace, a sign, digits with an optional fraction, "nan", "inf" and
\* "infinity" in any case; the texts of the model carry at most two
\* fractional digits, no exponent and no digit-group underscore.
float(text) == FloatOfStripped(strip(text))

\* x < n and x > n for a parsed float x and a whole number of rupees n
FloatLtInt(x, n) ==
    /\ ~x.nan
    /\ IF x.neg THEN (x.inf \/ x.mag # <<>> \/ n > 0)
       ELSE ~x.inf /\ BigCmp(x.mag, BigFromInt(n * 100)) < 0
FloatGtInt(x, n) ==
    /\ ~x.nan
    /\ ~x.neg
    /\ (x.inf \/ BigCmp(x.mag, BigFromInt(n * 100)) > 0)

\* the stored value of a parsed float that passed the range checks
FloatValue(x) == IF x.nan THEN NaN ELSE Num(BigToInt(x.mag))

IntOfBody(neg, body, mag) ==
    IF isdigit(body)
    THEN [ok |-> TRUE, neg |-> neg /\ mag # <<>>, mag |-> mag]
    ELSE [ok |-> FALSE, neg |-> FALSE, mag |-> <<>>]

IntOfStripped(t) == IntOfBody(Negative(t), Unsigned(t), DigitsToBig(Unsigned(t)))

\* int(text): [ok, neg, mag] with mag the magnitude
int(text) == IntOfStripped(strip(text))

IntLt(x, n) == IF x.neg THEN TRUE ELSE BigCmp(x.mag, BigFromInt(n)) < 0
IntGt(x, n) == ~x.neg /\ BigCmp(x.mag, BigFromInt(n)) > 0
\* ------------------------------------------------------------------------
\* Reference data (data/customers.json, data/offers.json)
\* ------------------------------------------------------------------------
PHONE_1 == <<"9", "8", "7", "6", "5", "4", "3", "2", "1", "0">>
PHONE_2 == <<"9", "1", "2", "3", "4", "5", "6", "7", "8", "0">>
PHONE_3 == <<"9", "0", "0", "0", "0", "0", "0", "0", "0", "1">>

load_customers ==
    << [id |-> "C001", name |-> "Asha", city |-> "Pune", phone |-> PHONE_1,
        credit_score |-> 750, preapproved_limit |-> 150000, salary |-> 40000],
       [id |-> "C002", name |-> "Ravi", city |-> "Delhi", phone |-> PHONE_2,
        credit_score |-> 650, preapproved_limit |-> 500000, salary |-> 80000],
       [id |-> "C003", name |-> "Meena", city |-> "Kochi", phone |-> PHONE_3,
        credit_score |-> 720, preapproved_limit |-> 300000, salary |-> 50000] >>

load_offers ==
    << [customer_id |-> "C001", interest_rate |-> 950],
       [customer_id |-> "C002", interest_rate |-> 1100] >>

Absent == <<>>
Some(x) == <<x>>
Get(opt, default) == IF opt = Absent THEN default ELSE opt[1]

\* the first match or Absent (None)
find_customer_by_phone(phone) ==
    LET hit == {i \in 1..Len(load_customers) : load_customers[i].phone = phone}
    IN  IF hit = {} THEN Absent
        ELSE Some(load_customers[CHOOSE i \in hit : \A k \in hit : i <= k])

find_offer_by_customer_id(customer_id) ==
    LET hit == {i \in 1..Len(load_offers) : load_offers[i].customer_id = customer_id}
    IN  IF hit = {} THEN Absent
        ELSE Some(load_offers[CHOOSE i \in hit : \A k \in hit : i <= k])

\* ------------------------------------------------------------------------
\* Session record
\* ------------------------------------------------------------------------
DEFAULT_RATE == 1050
DEFAULT_TENURE == 12

get_initial_state ==
    [ current_agent |-> "greeting",
      conversation_stage |-> "start",
      sales_state |-> "ask_amount",
      verification_state |-> "ask_phone",
      underwriting_state |-> "pending",
      loan_status |-> "None",
      kyc_verified |-> FALSE,
      \* keys that are absent until first written
      loan_amount |-> Absent,
      loan_tenure |-> Absent,
      interest_rate |-> Absent,
      estimated_emi |-> Absent,
      customer |-> Absent,
      customer_id |-> Absent,
      offer |-> Absent,
      calculated_emi |-> Absent,
      approved_amount |-> Absent,
      salary_slip_uploaded |-> Absent,
      sanction_letter_filename |-> Absent ]

\* customer = session.get("customer", {}) followed by customer.get(key, 0)
CustomerField(session, key) ==
    IF session.customer = Absent THEN 0 ELSE session.customer[1][key]
\* ------------------------------------------------------------------------
\* Message texts a user may send
\* ------------------------------------------------------------------------
Inputs ==
    { <<"3", "0", "0", "0", "0", "0">>,
      <<"1", "0", "0", "0", "0">>,
      <<"RUPEE", "5", "0", ",", "0", "0", ",", "0", "0", "0", " ">>,
      <<"9", "9", "9", "9", ".", "9", "9">>,
      <<"5", "0", "0", "0", "0", "0", "1">>,
      <<"n", "a", "n">>,
      <<"1", "2">>,
      <<" ", "7", "2", "TAB">>,
      <<"1", "1">>,
      <<"7", "3">>,
      <<"2", "4", ".", "0">>,
      <<"m", "a", "y", "b", "e">>,
      <<"y", "e", "s">>,
      <<" ", "O", "K", " ">>,
      <<"C", "a", "n", "c", "e", "l">>,
      <<"w", "r", "o", "n", "g">>,
      <<"9", "8", "7", "6", "5", "4", "3", "2", "1", "0">>,
      <<"9", "1", "2", "3", "4", "-", "5", "6", "7", "8", "0">>,
      <<"TAB", "9", "0", "0", "0", "0", " ", "0", "0", "0", "0", "1">>,
      <<"9", "9", "9", "9", "9", "9", "9", "9", "9", "9">>,
      <<"9", "8", "7", "6", "5", "4", "3", "2", "1">>,
      <<"9", "8", "7", "6", "5", "4", "3", "2", "1", "0", "1">> }

\* ------------------------------------------------------------------------
\* Sales agent
\* ------------------------------------------------------------------------
MIN_AMOUNT == 10000
MAX_AMOUNT == 5000000
MIN_TENURE == 12
MAX_TENURE == 72

SALES_YES == {<<"y", "e", "s">>, <<"y">>, <<"p", "r", "o", "c", "e", "e", "d">>,
              <<"o", "k">>, <<"s", "u", "r", "e">>, <<"y", "e", "a", "h">>}
SALES_NO == {<<"n", "o">>, <<"n">>, <<"c", "a", "n", "c", "e", "l">>, <<"s", "t", "o", "p">>}

\* user_input.replace(",", "").replace(RUPEE, "").strip()
AmountText(user_input) == strip(remove(remove(user_input, ","), "RUPEE"))

\* the amounts, tenures and rates the texts and the reference data can put
\* into a session, and the instalment of each combination
AmountValues ==
    {0} \cup {FloatValue(float(AmountText(t))).v : t \in
                {u \in Inputs : LET x == float(AmountText(u))
                                IN  /\ x.ok /\ ~x.nan
                                    /\ ~FloatLtInt(x, MIN_AMOUNT)
                                    /\ ~FloatGtInt(x, MAX_AMOUNT)}}
TenureValues ==
    {DEFAULT_TENURE} \cup {BigToInt(int(t).mag) : t \in
                {u \in Inputs : LET x == int(u)
                                IN  /\ x.ok
                                    /\ ~IntLt(x, MIN_TENURE)
                                    /\ ~IntGt(x, MAX_TENURE)}}
RateValues == {DEFAULT_RATE} \cup {load_offers[i].interest_rate : i \in 1..Len(load_offers)}

emi_table ==
    {<<k, calculate_emi(Num(k[1]), k[2], k[3])>> :
        k \in AmountValues \X RateValues \X TenureValues}

\* calculate_emi, looked up
Emi(principal, annual_rate, tenure_months) ==
    IF principal.nan THEN NaN
    ELSE (CHOOSE e \in emi_table : e[1] = <<principal.v, annual_rate, tenure_months>>)[2]
\* A worker's response: message is a tag for the text, next_state is "" and
\* the flags are FALSE when the key is absent from the dict.
SalesResponse(message, next_state, proceed) ==
    [message |-> message, next_state |-> next_state, proceed_to_verification |-> proceed]

\* sales_agent.process in ask_amount, amount = float(...) of the cleaned text
sales_ask_amount(session, amount) ==
    IF ~amount.ok
    THEN [session |-> session,
          response |-> SalesResponse("amount_not_understood", "ask_amount", FALSE)]
    ELSE IF FloatLtInt(amount, MIN_AMOUNT)
    THEN [session |-> session,
          response |-> SalesResponse("amount_below_minimum", "ask_amount", FALSE)]
    ELSE IF FloatGtInt(amount, MAX_AMOUNT)
    THEN [session |-> session,
          response |-> SalesResponse("amount_above_maximum", "ask_amount", FALSE)]
    ELSE [session |-> [session EXCEPT !.loan_amount = Some(FloatValue(amount)),
                                      !.sales_state = "ask_tenure"],
          response |-> SalesResponse("amount_accepted", "ask_tenure", FALSE)]

\* the accepted tenure: the estimate is computed and stored with it
sales_store_tenure(session, months) ==
    [session |-> [session EXCEPT
                     !.loan_tenure = Some(months),
                     !.estimated_emi = Some(Emi(Get(session.loan_amount, Num(0)),
                                                Get(session.interest_rate, DEFAULT_RATE),
                                                months)),
                     !.sales_state = "confirm"],
     response |-> SalesResponse("loan_summary", "confirm", FALSE)]

\* sales_agent.process in ask_tenure, tenure = int(user_input)
sales_ask_tenure(session, tenure) ==
    IF ~tenure.ok
    THEN [session |-> session,
          response |-> SalesResponse("tenure_not_understood", "ask_tenure", FALSE)]
    ELSE IF IntLt(tenure, MIN_TENURE)
    THEN [session |-> session,
          response |-> SalesResponse("tenure_below_minimum", "ask_tenure", FALSE)]
    ELSE IF IntGt(tenure, MAX_TENURE)
    THEN [session |-> session,
          response |-> SalesResponse("tenure_above_maximum", "ask_tenure", FALSE)]
    ELSE sales_store_tenure(session, BigToInt(tenure.mag))

\* a confirm step that knows only "yes" and "no"
sales_confirm_yes_no_only(session, user_response) ==
    IF user_response = <<"y", "e", "s">>
    THEN [session |-> [session EXCEPT !.sales_state = "complete"],
          response |-> SalesResponse("sales_confirmed", "complete", TRUE)]
    ELSE IF user_response = <<"n", "o">>
    THEN [session |-> [session EXCEPT !.sales_state = "cancelled"],
          response |-> SalesResponse("sales_cancelled", "cancelled", FALSE)]
    ELSE [session |-> session, response |-> SalesResponse("sales_yes_or_no", "confirm", FALSE)]

\* sales_agent.process in confirm, user_response = user_input.lower().strip()
sales_confirm(session, user_response) ==
    IF user_response \in SALES_YES
    THEN [session |-> [session EXCEPT !.sales_state = "complete"],
          response |-> SalesResponse("sales_confirmed", "complete", TRUE)]
    ELSE IF user_response \in SALES_NO
    THEN [session |-> [session EXCEPT !.sales_state = "cancelled"],
          response |-> SalesResponse("sales_cancelled", "cancelled", FALSE)]
    ELSE [session |-> session, response |-> SalesResponse("sales_yes_or_no", "confirm", FALSE)]

\* sales_agent.process: the session after the call and the response
sales_process(session, user_input) ==
    IF session.sales_state = "ask_amount"
    THEN sales_ask_amount(session, float(AmountText(user_input)))
    ELSE IF session.sales_state = "ask_tenure"
    THEN sales_ask_tenure(session, int(user_input))
    ELSE IF session.sales_state = "confirm"
    THEN sales_confirm(session, strip(lower(user_input)))
    ELSE [session |-> session, response |-> SalesResponse("", "", FALSE)]

\* ------------------------------------------------------------------------
\* Verification agent
\* ------------------------------------------------------------------------
PHONE_LEN == 10

VERIFY_YES == {<<"y", "e", "s">>, <<"y">>, <<"c", "o", "r", "r", "e", "c", "t">>,
               <<"r", "i", "g", "h", "t">>, <<"o", "k">>}
VERIFY_NO == {<<"n", "o">>, <<"n">>, <<"w", "r", "o", "n", "g">>,
              <<"i", "n", "c", "o", "r", "r", "e", "c", "t">>}
RETRY_YES == {<<"y", "e", "s">>, <<"y">>}

\* user_input.strip().replace(" ", "").replace("-", "")
PhoneText(user_input) == remove(remove(strip(user_input), " "), "-")

VerificationResponse(message, next_state, proceed) ==
    [message |-> message, next_state |-> next_state, proceed_to_underwriting |-> proceed]

\* the matched customer is bound, then the offer is looked up and bound
verification_bind_offer(s1, offer, fail) ==
    IF fail = "offer_lookup"
    THEN [session |-> s1, response |-> VerificationResponse("", "", FALSE), raised |-> TRUE]
    ELSE [session |-> IF offer # Absent
                      THEN [s1 EXCEPT !.offer = offer,
                                      !.interest_rate = Some(offer[1].interest_rate),
                                      !.verification_state = "confirm_identity"]
                      ELSE [s1 EXCEPT !.verification_state = "confirm_identity"],
          response |-> VerificationResponse("profile_found", "confirm_identity", FALSE),
          raised |-> FALSE]

\* customer = find_customer_by_phone(phone)
verification_bind_customer(session, customer, fail) ==
    IF customer # Absent
    THEN verification_bind_offer([session EXCEPT !.customer = customer,
                                                 !.customer_id = Some(customer[1].id)],
                                 find_offer_by_customer_id(customer[1].id), fail)
    ELSE [session |-> [session EXCEPT !.verification_state = "not_found"],
          response |-> VerificationResponse("profile_not_found", "not_found", FALSE),
          raised |-> FALSE]

\* ask_phone that takes any run of at least PHONE_LEN digits
verification_ask_phone_min_length(session, phone, fail) ==
    IF Len(phone) >= PHONE_LEN /\ isdigit(phone)
    THEN IF fail = "customer_lookup"
         THEN [session |-> session, response |-> VerificationResponse("", "", FALSE),
               raised |-> TRUE]
         ELSE verification_bind_customer(session, find_customer_by_phone(phone), fail)
    ELSE [session |-> session,
          response |-> VerificationResponse("phone_invalid", "ask_phone", FALSE),
          raised |-> FALSE]

\* verification_agent.process in ask_phone, phone the cleaned text
verification_ask_phone(session, phone, fail) ==
    IF Len(phone) = PHONE_LEN /\ isdigit(phone)
    THEN IF fail = "customer_lookup"
         THEN [session |-> session, response |-> VerificationResponse("", "", FALSE),
               raised |-> TRUE]
         ELSE verification_bind_customer(session, find_customer_by_phone(phone), fail)
    ELSE [session |-> session,
          response |-> VerificationResponse("phone_invalid", "ask_phone", FALSE),
          raised |-> FALSE]

\* verification_agent.process in confirm_identity
verification_confirm_identity(session, user_response) ==
    IF user_response \in VERIFY_YES
    THEN [session |-> [session EXCEPT !.verification_state = "complete",
                                      !.kyc_verified = TRUE],
          response |-> VerificationResponse("identity_verified", "complete", TRUE),
          raised |-> FALSE]
    ELSE IF user_response \in VERIFY_NO
    THEN [session |-> [session EXCEPT !.verification_state = "ask_phone",
                                      !.customer = Absent],
          response |-> VerificationResponse("phone_again", "ask_phone", FALSE),
          raised |-> FALSE]
    ELSE [session |-> session,
          response |-> VerificationResponse("identity_yes_or_no", "confirm_identity", FALSE),
          raised |-> FALSE]

\* a not_found step that takes every affirmative word of confirm_identity
verification_not_found_any_affirmative(session, user_response) ==
    IF user_response \in VERIFY_YES
    THEN [session |-> [session EXCEPT !.verification_state = "ask_phone"],
          response |-> VerificationResponse("phone_retry", "ask_phone", FALSE),
          raised |-> FALSE]
    ELSE [session |-> [session EXCEPT !.verification_state = "ended"],
          response |-> VerificationResponse("visit_branch", "ended", FALSE),
          raised |-> FALSE]

\* verification_agent.process in not_found
verification_not_found(session, user_response) ==
    IF user_response \in RETRY_YES
    THEN [session |-> [session EXCEPT !.verification_state = "ask_phone"],
          response |-> VerificationResponse("phone_retry", "ask_phone", FALSE),
          raised |-> FALSE]
    ELSE [session |-> [session EXCEPT !.verification_state = "ended"],
          response |-> VerificationResponse("visit_branch", "ended", FALSE),
          raised |-> FALSE]

\* verification_agent.process.  fail names the collaborator call that raises
\* in this call ("none", "customer_lookup", "offer_lookup"); raised tells
\* whether the call was reached, and session is then the record as the
\* exception left it.
verification_process(session, user_input, fail) ==
    IF session.verification_state = "ask_phone"
    THEN verification_ask_phone(session, PhoneText(user_input), fail)
    ELSE IF session.verification_state = "confirm_identity"
    THEN verification_confirm_identity(session, strip(lower(user_input)))
    ELSE IF session.verification_state = "not_found"
    THEN verification_not_found(session, strip(lower(user_input)))
    ELSE [session |-> session, response |-> VerificationResponse("", "", FALSE),
          raised |-> FALSE]
\* ------------------------------------------------------------------------
\* Underwriting agent
\* ------------------------------------------------------------------------
MIN_CREDIT_SCORE == 700

SalaryValues == {0} \cup {load_customers[i].salary : i \in 1..Len(load_customers)}

max_loan_table ==
    {<<k, calculate_max_loan_for_emi(Num(k[1] * 50), k[2], k[3])>> :
        k \in SalaryValues \X RateValues \X TenureValues}

\* calculate_max_loan_for_emi(0.5 * salary, ...), looked up
MaxLoanForSalary(salary, annual_rate, tenure_months) ==
    (CHOOSE e \in max_loan_table : e[1] = <<salary, annual_rate, tenure_months>>)[2]

\* detail is the amount the message reports (Absent when it reports none)
UnderwritingResponse(decision, reason, next_state, proceed, show_upload, detail) ==
    [decision |-> decision, reason |-> reason, next_state |-> next_state,
     proceed_to_sanction |-> proceed, show_upload |-> show_upload, detail |-> detail]

\* the rules with the limit looked at before the credit score
underwriting_rules_limit_first(session, loan_amount, credit_score, preapproved_limit) ==
    IF FLe(loan_amount, Rupees(preapproved_limit))
    THEN [session |-> [session EXCEPT !.underwriting_state = "approved",
                                      !.loan_status = "approved",
                                      !.approved_amount = Some(loan_amount)],
          response |-> UnderwritingResponse("approved", "within_preapproved_limit", "approved",
                                            TRUE, FALSE, Absent)]
    ELSE IF credit_score < MIN_CREDIT_SCORE
    THEN [session |-> [session EXCEPT !.underwriting_state = "rejected",
                                      !.loan_status = "rejected"],
          response |-> UnderwritingResponse("rejected", "low_credit_score", "rejected",
                                            FALSE, FALSE, Absent)]
    ELSE IF FLe(loan_amount, Rupees(2 * preapproved_limit))
    THEN [session |-> [session EXCEPT !.underwriting_state = "awaiting_salary_slip",
                                      !.loan_status = "pending_verification"],
          response |-> UnderwritingResponse("needs_salary_proof",
                                            "exceeds_preapproved_needs_verification",
                                            "awaiting_salary_slip", FALSE, TRUE, Absent)]
    ELSE [session |-> [session EXCEPT !.underwriting_state = "rejected",
                                      !.loan_status = "rejected"],
          response |-> UnderwritingResponse("rejected", "exceeds_maximum_limit", "rejected",
                                            FALSE, FALSE, Some(Rupees(2 * preapproved_limit)))]

\* the rules of underwriting_agent.process, in the order of the code
underwriting_rules(session, loan_amount, credit_score, preapproved_limit) ==
    IF credit_score < MIN_CREDIT_SCORE
    THEN [session |-> [session EXCEPT !.underwriting_state = "rejected",
                                      !.loan_status = "rejected"],
          response |-> UnderwritingResponse("rejected", "low_credit_score", "rejected",
                                            FALSE, FALSE, Absent)]
    ELSE IF FLe(loan_amount, Rupees(preapproved_limit))
    THEN [session |-> [session EXCEPT !.underwriting_state = "approved",
                                      !.loan_status = "approved",
                                      !.approved_amount = Some(loan_amount)],
          response |-> UnderwritingResponse("approved", "within_preapproved_limit", "approved",
                                            TRUE, FALSE, Absent)]
    ELSE IF FLe(loan_amount, Rupees(2 * preapproved_limit))
    THEN [session |-> [session EXCEPT !.underwriting_state = "awaiting_salary_slip",
                                      !.loan_status = "pending_verification"],
          response |-> UnderwritingResponse("needs_salary_proof",
                                            "exceeds_preapproved_needs_verification",
                                            "awaiting_salary_slip", FALSE, TRUE, Absent)]
    ELSE [session |-> [session EXCEPT !.underwriting_state = "rejected",
                                      !.loan_status = "rejected"],
          response |-> UnderwritingResponse("rejected", "exceeds_maximum_limit", "rejected",
                                            FALSE, FALSE, Some(Rupees(2 * preapproved_limit)))]

\* underwriting_agent.process: the instalment is computed and stored, then
\* the rules decide
underwriting_process(session) ==
    underwriting_rules(
        [session EXCEPT !.calculated_emi =
            Some(Emi(Get(session.loan_amount, Num(0)),
                     Get(session.interest_rate, DEFAULT_RATE),
                     Get(session.loan_tenure, DEFAULT_TENURE)))],
        Get(session.loan_amount, Num(0)),
        CustomerField(session, "credit_score"),
        CustomerField(session, "preapproved_limit"))

\* salary verification that allows an instalment up to the whole salary
process_salary_verification_whole_salary(session) ==
    LET loan_amount == Get(session.loan_amount, Num(0))
        loan_tenure == Get(session.loan_tenure, DEFAULT_TENURE)
        interest_rate == Get(session.interest_rate, DEFAULT_RATE)
        salary == CustomerField(session, "salary")
        emi == Emi(loan_amount, interest_rate, loan_tenure)
    IN  IF FLe(emi, Num(salary * 100))
        THEN [session |-> [session EXCEPT !.underwriting_state = "approved",
                                          !.loan_status = "approved",
                                          !.approved_amount = Some(loan_amount)],
              response |-> UnderwritingResponse("approved", "salary_verified", "approved",
                                                TRUE, FALSE, Absent)]
        ELSE [session |-> [session EXCEPT !.underwriting_state = "rejected",
                                          !.loan_status = "rejected"],
              response |-> UnderwritingResponse("rejected", "high_emi_ratio", "rejected", FALSE, FALSE,
                               Some(MaxLoanForSalary(salary, interest_rate, loan_tenure)))]

\* underwriting_agent.process_salary_verification
process_salary_verification(session) ==
    LET loan_amount == Get(session.loan_amount, Num(0))
        loan_tenure == Get(session.loan_tenure, DEFAULT_TENURE)
        interest_rate == Get(session.interest_rate, DEFAULT_RATE)
        salary == CustomerField(session, "salary")
        emi == Emi(loan_amount, interest_rate, loan_tenure)
    IN  IF FLe(emi, Num(salary * 50))
        THEN [session |-> [session EXCEPT !.underwriting_state = "approved",
                                          !.loan_status = "approved",
                                          !.approved_amount = Some(loan_amount)],
              response |-> UnderwritingResponse("approved", "salary_verified", "approved",
                                                TRUE, FALSE, Absent)]
        ELSE [session |-> [session EXCEPT !.underwriting_state = "rejected",
                                          !.loan_status = "rejected"],
              response |-> UnderwritingResponse("rejected", "high_emi_ratio", "rejected", FALSE, FALSE,
                               Some(MaxLoanForSalary(salary, interest_rate, loan_tenure)))]

\* ------------------------------------------------------------------------
\* Sanction letter generator
\* ------------------------------------------------------------------------
\* a generator that withdraws the approval when building the document raises
generate_sanction_letter_withdraws(session, fail) ==
    IF fail
    THEN [session |-> [session EXCEPT !.loan_status = "None", !.approved_amount = Absent],
          filename |-> Absent, show_download |-> FALSE, raised |-> TRUE]
    ELSE [session |-> [session EXCEPT !.sanction_letter_filename =
                           Some(IF session.customer = Absent THEN "" ELSE session.customer[1].id)],
          filename |-> Some(IF session.customer = Absent THEN "" ELSE session.customer[1].id),
          show_download |-> TRUE, raised |-> FALSE]

\* generate_sanction_letter.  The file name carries the customer id ("" when
\* no customer is bound) and a timestamp, which the model leaves out; the
\* path is written together with the file name and adds nothing to it.
\* When building the document raises, the session is not written.
generate_sanction_letter(session, fail) ==
    LET filename == IF session.customer = Absent THEN "" ELSE session.customer[1].id
    IN  IF fail
        THEN [session |-> session, filename |-> Absent, show_download |-> FALSE, raised |-> TRUE]
        ELSE [session |-> [session EXCEPT !.sanction_letter_filename = Some(filename)],
              filename |-> Some(filename), show_download |-> TRUE, raised |-> FALSE]

\* ------------------------------------------------------------------------
\* Master agent
\* ------------------------------------------------------------------------
\* The orchestrator's result: the session, the response dict, and what the
\* turn did (which underwriting function ran, whether the generator was
\* invoked, whether an exception left the handler).
Turn(session, message, show_upload, show_download, download_file, session_ended,
     underwriting, sanction, raised) ==
    [session |-> session,
     response |-> [message |-> message, show_upload |-> show_upload,
                   show_download |-> show_download, download_file |-> download_file,
                   session_ended |-> session_ended],
     underwriting |-> underwriting, sanction |-> sanction, raised |-> raised]

Raised(session, underwriting, sanction) ==
    Turn(session, <<>>, FALSE, FALSE, Absent, FALSE, underwriting, sanction, TRUE)

\* process_message after sales_agent.process returned
message_after_sales(sales) ==
    IF sales.response.proceed_to_verification
    THEN Turn([sales.session EXCEPT !.current_agent = "verification",
                                    !.conversation_stage = "verification"],
              <<sales.response.message, "verification_initial">>,
              FALSE, FALSE, Absent, FALSE, "none", FALSE, FALSE)
    ELSE IF sales.response.next_state = "cancelled"
    THEN Turn([sales.session EXCEPT !.current_agent = "ended"],
              <<sales.response.message>>, FALSE, FALSE, Absent, TRUE, "none", FALSE, FALSE)
    ELSE Turn(sales.session, <<sales.response.message>>, FALSE, FALSE, Absent, FALSE,
              "none", FALSE, FALSE)

\* process_message after generate_sanction_letter was called
message_after_sanction(sanction, message, show_upload) ==
    IF sanction.raised
    THEN Raised(sanction.session, "process", TRUE)
    ELSE Turn([sanction.session EXCEPT !.current_agent = "completed"],
              message \o <<"sanction_letter">>, show_upload,
              sanction.show_download, sanction.filename, FALSE, "process", TRUE, FALSE)

\* a rejection that does not tell the client that the session ended
message_after_underwriting_silent_rejection(underwriting, message, fail) ==
    IF underwriting.response.proceed_to_sanction
    THEN message_after_sanction(
             generate_sanction_letter(
                 [underwriting.session EXCEPT !.current_agent = "sanction",
                                              !.conversation_stage = "generating_sanction"],
                 fail = "sanction"),
             message \o <<underwriting.response.reason>>,
             underwriting.response.show_upload)
    ELSE IF underwriting.response.decision = "rejected"
    THEN Turn([underwriting.session EXCEPT !.current_agent = "ended"],
              message \o <<underwriting.response.reason>>,
              underwriting.response.show_upload, FALSE, Absent, FALSE, "process", FALSE, FALSE)
    ELSE Turn(underwriting.session, message \o <<underwriting.response.reason>>,
              underwriting.response.show_upload, FALSE, Absent, FALSE,
              "process", FALSE, FALSE)

\* process_message after underwriting_agent.process returned
message_after_underwriting(underwriting, message, fail) ==
    IF underwriting.response.proceed_to_sanction
    THEN message_after_sanction(
             generate_sanction_letter(
                 [underwriting.session EXCEPT !.current_agent = "sanction",
                                              !.conversation_stage = "generating_sanction"],
                 fail = "sanction"),
             message \o <<underwriting.response.reason>>,
             underwriting.response.show_upload)
    ELSE IF underwriting.response.decision = "rejected"
    THEN Turn([underwriting.session EXCEPT !.current_agent = "ended"],
              message \o <<underwriting.response.reason>>,
              underwriting.response.show_upload, FALSE, Absent, TRUE, "process", FALSE, FALSE)
    ELSE Turn(underwriting.session, message \o <<underwriting.response.reason>>,
              underwriting.response.show_upload, FALSE, Absent, FALSE,
              "process", FALSE, FALSE)

\* a verification turn that leaves underwriting to a later turn
message_after_verification_defers(verification, fail) ==
    IF verification.raised
    THEN Raised(verification.session, "none", FALSE)
    ELSE IF verification.response.next_state = "ended"
    THEN Turn([verification.session EXCEPT !.current_agent = "ended"],
              <<verification.response.message>>, FALSE, FALSE, Absent, TRUE,
              "none", FALSE, FALSE)
    ELSE Turn(verification.session, <<verification.response.message>>,
              FALSE, FALSE, Absent, FALSE, "none", FALSE, FALSE)

\* process_message after verification_agent.process returned
message_after_verification(verification, fail) ==
    IF verification.raised
    THEN Raised(verification.session, "none", FALSE)
    ELSE IF verification.response.proceed_to_underwriting
    THEN message_after_underwriting(
             underwriting_process(
                 [verification.session EXCEPT !.current_agent = "underwriting",
                                              !.conversation_stage = "underwriting"]),
             <<verification.response.message>>, fail)
    ELSE IF verification.response.next_state = "ended"
    THEN Turn([verification.session EXCEPT !.current_agent = "ended"],
              <<verification.response.message>>, FALSE, FALSE, Absent, TRUE,
              "none", FALSE, FALSE)
    ELSE Turn(verification.session, <<verification.response.message>>,
              FALSE, FALSE, Absent, FALSE, "none", FALSE, FALSE)

\* a reminder that gives up waiting for the document
message_while_underwriting_gives_up(session) ==
    IF session.underwriting_state = "awaiting_salary_slip"
    THEN Turn([session EXCEPT !.underwriting_state = "pending"],
              <<"upload_reminder">>, TRUE, FALSE, Absent, FALSE, "none", FALSE, FALSE)
    ELSE Turn(session, <<"being_processed">>, FALSE, FALSE, Absent, FALSE,
              "none", FALSE, FALSE)

\* process_message while current_agent is underwriting
message_while_underwriting(session) ==
    IF session.underwriting_state = "awaiting_salary_slip"
    THEN Turn(session, <<"upload_reminder">>, TRUE, FALSE, Absent, FALSE,
              "none", FALSE, FALSE)
    ELSE Turn(session, <<"being_processed">>, FALSE, FALSE, Absent, FALSE,
              "none", FALSE, FALSE)

\* master_agent.process_message; fail is "none", "customer_lookup",
\* "offer_lookup" or "sanction"
process_message(session, user_input, fail) ==
    IF session.current_agent = "greeting"
    THEN Turn([session EXCEPT !.current_agent = "sales",
                              !.conversation_stage = "collecting_loan_details"],
              <<"sales_initial">>, FALSE, FALSE, Absent, FALSE, "none", FALSE, FALSE)
    ELSE IF session.current_agent = "sales"
    THEN message_after_sales(sales_process(session, user_input))
    ELSE IF session.current_agent = "verification"
    THEN message_after_verification(verification_process(session, user_input, fail), fail)
    ELSE IF session.current_agent = "underwriting"
    THEN message_while_underwriting(session)
    ELSE IF session.current_agent = "completed"
    THEN Turn(session, <<"completed">>, FALSE, TRUE, session.sanction_letter_filename, FALSE,
              "none", FALSE, FALSE)
    ELSE IF session.current_agent = "ended"
    THEN Turn(session, <<"conversation_ended">>, FALSE, FALSE, Absent, TRUE,
              "none", FALSE, FALSE)
    ELSE Turn(session, <<"something_went_wrong">>, FALSE, FALSE, Absent, FALSE,
              "none", FALSE, FALSE)

\* process_salary_upload after generate_sanction_letter was called
upload_after_sanction(sanction, message) ==
    IF sanction.raised
    THEN Raised(sanction.session, "salary_verification", TRUE)
    ELSE Turn([sanction.session EXCEPT !.current_agent = "completed"],
              message \o <<"sanction_letter">>, FALSE,
              sanction.show_download, sanction.filename, FALSE,
              "salary_verification", TRUE, FALSE)

\* an upload turn that reports the decision and leaves the stage alone
upload_after_underwriting_keeps_stage(underwriting, fail) ==
    Turn(underwriting.session, <<underwriting.response.reason>>, FALSE, FALSE, Absent,
         underwriting.response.decision = "rejected", "salary_verification", FALSE, FALSE)

\* process_salary_upload after process_salary_verification returned
upload_after_underwriting(underwriting, fail) ==
    IF underwriting.response.proceed_to_sanction
    THEN upload_after_sanction(
             generate_sanction_letter(
                 [underwriting.session EXCEPT !.current_agent = "sanction",
                                              !.conversation_stage = "generating_sanction"],
                 fail = "sanction"),
             <<underwriting.response.reason>>)
    ELSE IF underwriting.response.decision = "rejected"
    THEN Turn([underwriting.session EXCEPT !.current_agent = "ended"],
              <<underwriting.response.reason>>, FALSE, FALSE, Absent, TRUE,
              "salary_verification", FALSE, FALSE)
    ELSE Turn(underwriting.session, <<underwriting.response.reason>>, FALSE, FALSE, Absent,
              FALSE, "salary_verification", FALSE, FALSE)

\* master_agent.process_salary_upload; fail is "none" or "sanction"
process_salary_upload(session, fail) ==
    upload_after_underwriting(process_salary_verification(session), fail)
\* ------------------------------------------------------------------------
\* main.py: the session registry and the request handlers
\* ------------------------------------------------------------------------
MaxSessions == 2
MaxTurns == 7

SessionIds == 1..MaxSessions
\* a request may also carry no identifier, or one the registry does not hold
NO_SESSION == 0

CONTENT_TYPES == {"application/pdf", "image/jpeg", "image/png", "image/jpg"}
ContentTypes == {"application/pdf", "text/plain"}

VARIABLES
    sessions,    \* the registry: session id -> session record
    detached,    \* records deleted from the registry that a suspended upload still holds
    uploading,   \* per session id, the uploads suspended in "await file.read()"
    next_uuid,   \* how many identifiers uuid4 has handed out
    issued,      \* per session id, how often generate_sanction_letter was invoked
    turns,       \* requests received
    calc         \* a call of the financial calculator: its arguments and results

vars == <<sessions, detached, uploading, next_uuid, issued, turns, calc>>

\* the calculator's arguments (principal in paise, rate in hundredths of a
\* percent, tenure in months) and what it returned so far
Call(principal, annual_rate, tenure_months) ==
    [principal |-> principal, annual_rate |-> annual_rate, tenure_months |-> tenure_months,
     emi |-> Absent, max_loan |-> Absent]

Init ==
    /\ sessions = <<>>
    /\ detached = <<>>
    /\ uploading = [i \in SessionIds |-> 0]
    /\ next_uuid = 0
    /\ issued = [i \in SessionIds |-> 0]
    /\ turns = 0
    /\ calc = Call(0, DEFAULT_RATE, DEFAULT_TENURE)

\* f with key k set to v, whether or not k is in its domain
Put(f, k, v) == [x \in (DOMAIN f) \cup {k} |-> IF x = k THEN v ELSE f[x]]
Del(f, k) == [x \in (DOMAIN f) \ {k} |-> f[x]]

\* the effect of a chat request on the registry: the record under id is
\* left as the turn left it
ChatApply(id, known, turn, fail) ==
    /\ turn.raised <=> fail # "none"
    /\ sessions' = Put(sessions, id, turn.session)
    /\ next_uuid' = IF known THEN next_uuid ELSE next_uuid + 1
    /\ issued' = IF turn.sanction THEN [issued EXCEPT ![id] = @ + 1] ELSE issued
    /\ turns' = turns + 1
    /\ UNCHANGED <<detached, uploading, calc>>

\* a chat handler that greets a new session and then lets the same message
\* go on to the intake machine
ChatTurn_reads_first_message(session_id, message, fail) ==
    /\ turns < MaxTurns
    /\ IF session_id \in DOMAIN sessions
       THEN ChatApply(session_id, TRUE,
                      process_message(sessions[session_id], message, fail), fail)
       ELSE /\ next_uuid < MaxSessions
            /\ ChatApply(next_uuid + 1, FALSE,
                         process_message(process_message(get_initial_state, message, fail).session,
                                         message, fail), fail)

\* POST /chat.  A missing or unknown identifier creates a record under a
\* fresh uuid; the message is then processed in the same call.
ChatTurn(session_id, message, fail) ==
    /\ turns < MaxTurns
    /\ IF session_id \in DOMAIN sessions
       THEN ChatApply(session_id, TRUE,
                      process_message(sessions[session_id], message, fail), fail)
       ELSE /\ next_uuid < MaxSessions
            /\ ChatApply(next_uuid + 1, FALSE,
                         process_message(get_initial_state, message, fail), fail)

chat(session_id, message) == ChatTurn(session_id, message, "none")

\* POST /chat in which a collaborator raises: the handler is left by the
\* exception and the record stays as it was at that point
chat_fails(session_id, message, fail) == ChatTurn(session_id, message, fail)

\* an upload check that accepts a file of any type
upload_status_any_type(registry, session_id, content_type) ==
    IF session_id \notin DOMAIN registry THEN 400 ELSE 200

\* the HTTP status of POST /upload-salary before it touches the record
upload_status(registry, session_id, content_type) ==
    IF session_id \notin DOMAIN registry THEN 400
    ELSE IF content_type \notin CONTENT_TYPES THEN 400
    ELSE 200

\* an upload handler that marks the record before it awaits the file
upload_salary_marks_early(session_id, content_type) ==
    /\ turns < MaxTurns
    /\ turns' = turns + 1
    /\ IF upload_status(sessions, session_id, content_type) = 200
       THEN /\ uploading' = [uploading EXCEPT ![session_id] = @ + 1]
            /\ sessions' = [sessions EXCEPT ![session_id].salary_slip_uploaded = Some(TRUE)]
       ELSE UNCHANGED <<uploading, sessions>>
    /\ UNCHANGED <<detached, next_uuid, issued, calc>>

\* POST /upload-salary up to "await file.read()": the existence check, the
\* reference to the record and the content-type check
upload_salary(session_id, content_type) ==
    /\ turns < MaxTurns
    /\ turns' = turns + 1
    /\ IF upload_status(sessions, session_id, content_type) = 200
       THEN uploading' = [uploading EXCEPT ![session_id] = @ + 1]
       ELSE UNCHANGED uploading
    /\ UNCHANGED <<sessions, detached, next_uuid, issued, calc>>

\* the record a suspended upload holds
Held(session_id) ==
    IF session_id \in DOMAIN sessions THEN sessions[session_id] ELSE detached[session_id]

\* the effect of a resumed upload: the record the handler holds is left as
\* the turn left it
UploadApply(session_id, turn, fail) ==
    /\ turn.raised <=> fail # "none"
    /\ uploading' = [uploading EXCEPT ![session_id] = @ - 1]
    /\ sessions' = IF session_id \in DOMAIN sessions
                   THEN Put(sessions, session_id, turn.session) ELSE sessions
    /\ detached' = IF session_id \in DOMAIN sessions THEN detached
                   ELSE IF uploading[session_id] > 1
                   THEN Put(detached, session_id, turn.session)
                   ELSE Del(detached, session_id)
    /\ issued' = IF turn.sanction THEN [issued EXCEPT ![session_id] = @ + 1] ELSE issued
    /\ UNCHANGED <<next_uuid, turns, calc>>

\* POST /upload-salary after the await: the record the handler holds is
\* marked and handed to the master agent
UploadResume(session_id, fail) ==
    /\ uploading[session_id] > 0
    /\ UploadApply(session_id,
                   process_salary_upload(
                       [Held(session_id) EXCEPT !.salary_slip_uploaded = Some(TRUE)], fail),
                   fail)

upload_salary_resume(session_id) == UploadResume(session_id, "none")

upload_salary_fails(session_id) == UploadResume(session_id, "sanction")

\* a reset that empties the registry
reset_session_clears_registry(session_id) ==
    /\ turns < MaxTurns
    /\ turns' = turns + 1
    /\ IF session_id \in DOMAIN sessions
       THEN /\ sessions' = <<>>
            /\ detached' = [id \in {x \in (DOMAIN sessions) \cup (DOMAIN detached) :
                                       uploading[x] > 0} |-> Held(id)]
       ELSE UNCHANGED <<sessions, detached>>
    /\ UNCHANGED <<uploading, next_uuid, issued, calc>>

\* POST /reset
reset_session(session_id) ==
    /\ turns < MaxTurns
    /\ turns' = turns + 1
    /\ IF session_id \in DOMAIN sessions
       THEN /\ sessions' = Del(sessions, session_id)
            /\ detached' = IF uploading[session_id] > 0
                           THEN Put(detached, session_id, sessions[session_id])
                           ELSE detached
       ELSE UNCHANGED <<sessions, detached>>
    /\ UNCHANGED <<uploading, next_uuid, issued, calc>>

RequestIds == SessionIds \cup {NO_SESSION}

Next ==
    \/ \E id \in RequestIds, m \in Inputs : chat(id, m)
    \/ \E id \in RequestIds, ct \in ContentTypes : upload_salary(id, ct)
    \/ \E id \in SessionIds : upload_salary_resume(id)
    \/ \E id \in RequestIds : reset_session(id)

Spec == Init /\ [][Next]_vars

\* the same system with collaborators that may raise
NextFail ==
    \/ Next
    \/ \E id \in RequestIds, m \in Inputs, f \in {"customer_lookup", "offer_lookup", "sanction"} :
           chat_fails(id, m, f)
    \/ \E id \in SessionIds : upload_salary_fails(id)

SpecFail == Init /\ [][NextFail]_vars

\* the financial calculator on its own: a principal, a rate above 0 and a
\* tenure above 0 are chosen, calculate_emi is applied to them and
\* calculate_max_loan_for_emi to the instalment it returned
CalcPrincipals ==
    {0, 10, 100, 10000, 999999} \cup {100 * rupees : rupees \in {10000, 300000, 5000000}}
CalcRates == {1, 950, 1050, 1100}
CalcTenures == {1, 3, 12, 72}

InitCalc ==
    /\ sessions = <<>>
    /\ detached = <<>>
    /\ uploading = [i \in SessionIds |-> 0]
    /\ next_uuid = 0
    /\ issued = [i \in SessionIds |-> 0]
    /\ turns = 0
    /\ \E p \in CalcPrincipals, r \in CalcRates, n \in CalcTenures : calc = Call(p, r, n)

CalcEmi ==
    /\ calc.emi = Absent
    /\ \E emi \in {calculate_emi(Num(calc.principal), calc.annual_rate, calc.tenure_months)}
                  \cup calculate_emi_roundings(Num(calc.principal), calc.annual_rate,
                                               calc.tenure_months) :
           calc' = [calc EXCEPT !.emi = Some(emi)]
    /\ UNCHANGED <<sessions, detached, uploading, next_uuid, issued, turns>>

CalcMaxLoan ==
    /\ calc.emi # Absent
    /\ calc.max_loan = Absent
    /\ calc' = [calc EXCEPT !.max_loan =
                   Some(calculate_max_loan_for_emi(calc.emi[1], calc.annual_rate,
                                                   calc.tenure_months))]
    /\ UNCHANGED <<sessions, detached, uploading, next_uuid, issued, turns>>

NextCalc == CalcEmi \/ CalcMaxLoan

SpecCalc == InitCalc /\ [][NextCalc]_vars

\* ------------------------------------------------------------------------
\* Properties
\* ------------------------------------------------------------------------
\* every session record the program holds: registered, or held only by a
\* suspended upload
Records ==
    {sessions[id] : id \in DOMAIN sessions} \cup {detached[id] : id \in DOMAIN detached}

\* the requested amount as the underwriting functions read it
Requested(session) == Get(session.loan_amount, Num(0))

\* Credit scores and limits around the rule boundaries for the amounts a
\* session can hold (none, 10000, 300000, 5000000, nan).
C1_Scores == {0, 699, 700, 750}
C1_Limits == {0, 5000, 10000, 150000, 300000, 2500000}

C1_Profile(score, limit) ==
    [id |-> "C000", name |-> "", city |-> "", phone |-> <<>>,
     credit_score |-> score, preapproved_limit |-> limit, salary |-> 0]

\* decision and reason by the four rules in priority order
C1_Outcome(score, limit, amount) ==
    IF score < 700 THEN <<"rejected", "low_credit_score">>
    ELSE IF ~amount.nan /\ amount.v <= 100 * limit
    THEN <<"approved", "within_preapproved_limit">>
    ELSE IF ~amount.nan /\ amount.v <= 100 * 2 * limit
    THEN <<"needs_salary_proof", "exceeds_preapproved_needs_verification">>
    ELSE <<"rejected", "exceeds_maximum_limit">>

C1_Agrees(result, outcome, amount) ==
    /\ <<result.response.decision, result.response.reason>> = outcome
    /\ result.session.loan_status =
           (IF outcome[1] = "needs_salary_proof" THEN "pending_verification" ELSE outcome[1])
    /\ outcome[1] = "approved" => result.session.approved_amount = Some(amount)

\* C1: underwriting_agent.process decides every credit score, pre-approved
\* limit and loan amount by exactly one of four rules, the first that
\* applies: score below 700 rejects (low_credit_score); else an amount
\* within the limit approves with approved_amount the requested amount;
\* else an amount within twice the limit asks for income proof; else the
\* request is rejected (exceeds_maximum_limit).
C1_StrictPriority ==
    \A s \in Records : \A score \in C1_Scores, limit \in C1_Limits :
        C1_Agrees(underwriting_process([s EXCEPT !.customer = Some(C1_Profile(score, limit))]),
                  C1_Outcome(score, limit, Requested(s)), Requested(s))

\* a turn ran the rules and they asked for income proof
C1_Witness ==
    \E id \in DOMAIN sessions :
        /\ sessions[id].current_agent = "underwriting"
        /\ sessions[id].loan_status = "pending_verification"
        /\ sessions[id].calculated_emi # Absent

\* C2: in every reachable session state, after any sequence of chat
\* messages and salary uploads, approved_amount is set if and only if
\* loan_status is approved.
C2_ApprovedAmountIffApproved ==
    \A s \in Records : (s.approved_amount # Absent) <=> (s.loan_status = "approved")

\* C3: generate_sanction_letter is invoked exactly once per approved
\* session, on the turn in which the decision becomes approved, and never a
\* second time for that session.
C3_IssuedExactlyOnce ==
    \A id \in DOMAIN sessions :
        /\ issued[id] <= 1
        /\ sessions[id].loan_status = "approved" => issued[id] = 1

\* a step in which a suspended upload of session id resumed, which is when
\* process_salary_upload runs on the record it holds
UploadRan(id) == uploading'[id] < uploading[id]

\* C4: process_salary_upload runs only on a session whose stage is
\* underwriting with underwriting_state awaiting_salary_slip, and an upload
\* for a session in any other stage changes neither its stage nor its
\* decision.
C4_UploadOnlyWhileWaiting ==
    [][\A id \in SessionIds :
          UploadRan(id) =>
              /\ Held(id).current_agent = "underwriting"
              /\ Held(id).underwriting_state = "awaiting_salary_slip"]_vars

\* C5: once the stage of a session is ended it stays ended, and once it is
\* completed it stays completed, under every later chat message and salary
\* upload; a message in these stages only returns the closing message, with
\* session_ended set for ended.
C5_TerminalStagesAbsorbing ==
    [][\A id \in (DOMAIN sessions) \cap (DOMAIN sessions') :
          sessions[id].current_agent \in {"ended", "completed"} =>
              sessions'[id].current_agent = sessions[id].current_agent]_vars

\* a step in which underwriting_agent.process ran on session id: the turn
\* that completes the verification
RulesRan(id) ==
    /\ id \in (DOMAIN sessions) \cap (DOMAIN sessions')
    /\ sessions[id].verification_state # "complete"
    /\ sessions'[id].verification_state = "complete"

C6_InDomain(session) ==
    /\ session.loan_amount # Absent
    /\ ~session.loan_amount[1].nan
    /\ session.loan_amount[1].v >= 100 * 10000
    /\ session.loan_amount[1].v <= 100 * 5000000
    /\ session.loan_tenure # Absent
    /\ session.loan_tenure[1] >= 12
    /\ session.loan_tenure[1] <= 72

\* C6: whenever underwriting runs on a session (underwriting_agent.process
\* or process_salary_verification), its loan_amount is within
\* [10000, 5000000] and its loan_tenure within [12, 72].
C6_UnderwritingInputsInDomain ==
    [][\A id \in SessionIds :
          /\ RulesRan(id) => C6_InDomain(sessions[id])
          /\ UploadRan(id) => C6_InDomain(Held(id))]_vars

C7_AmountInRange(x) ==
    /\ x.ok /\ ~x.nan /\ ~x.inf /\ ~x.neg
    /\ BigCmp(x.mag, BigFromInt(100 * 10000)) >= 0
    /\ BigCmp(x.mag, BigFromInt(100 * 5000000)) <= 0

C7_TenureInRange(x) ==
    /\ x.ok /\ ~x.neg
    /\ BigCmp(x.mag, BigFromInt(12)) >= 0
    /\ BigCmp(x.mag, BigFromInt(72)) <= 0

\* the intake step from record s on text m, with result r
C7_Step(s, m, r) ==
    /\ s.sales_state = "ask_amount" =>
           IF C7_AmountInRange(float(AmountText(m)))
           THEN r.session.sales_state = "ask_tenure" /\ r.session.loan_amount # Absent
           ELSE r.session = s /\ r.response.next_state = "ask_amount"
    /\ s.sales_state = "ask_tenure" =>
           IF C7_TenureInRange(int(m))
           THEN r.session.sales_state = "confirm" /\ r.session.loan_tenure # Absent
           ELSE r.session = s /\ r.response.next_state = "ask_tenure"

\* C7: for every input text, sales_agent.process stores loan_amount and
\* leaves ask_amount only when the parsed amount satisfies
\* 10000 <= amount <= 5000000, and stores loan_tenure and leaves ask_tenure
\* only when the parsed integer satisfies 12 <= tenure <= 72; every other
\* input re-prompts and keeps the same sub-state.
C7_IntakeAcceptsOnlyInRange ==
    \A s \in Records : \A m \in Inputs :
        s.current_agent = "sales" => C7_Step(s, m, sales_process(s, m))

AskingPhone(session) ==
    session.current_agent = "verification" /\ session.verification_state = "ask_phone"

C8_TenDigits(t) ==
    Len(t) = 10 /\ \A i \in 1..Len(t) : t[i] \in {Digits[d] : d \in 1..10}

\* whether the turn reaches the customer lookup: a lookup that raises would
\* leave the handler
C8_LooksUp(s, m) == verification_process(s, m, "customer_lookup").raised

C8_Reprompts(s, m, r) ==
    /\ r.session = s
    /\ r.response.next_state = "ask_phone"
    /\ ~C8_LooksUp(s, m)

C8_Leaves(s, m, r) ==
    /\ r.session.verification_state \in {"confirm_identity", "not_found"}
    /\ C8_LooksUp(s, m)

\* C8 as stated: in ask_phone, the customer lookup is performed and
\* ask_phone is left only when the input, after stripping spaces and
\* hyphens, is exactly 10 digits; any other input re-prompts, performs no
\* lookup, binds no profile and stays in ask_phone.
C8_TenDigitsAfterSeparators ==
    \A s \in Records : \A m \in Inputs :
        AskingPhone(s) /\ ~C8_TenDigits(remove(remove(m, " "), "-"))
            => C8_Reprompts(s, m, verification_process(s, m, "none"))

\* C8, amended: in ask_phone, the customer lookup is performed and ask_phone
\* is left exactly when the input, with surrounding whitespace trimmed and
\* spaces and hyphens then removed, is exactly 10 digits; any other input
\* re-prompts, performs no lookup, binds no profile and stays in ask_phone.
C8_TenDigitsAfterTrim ==
    \A s \in Records : \A m \in Inputs :
        AskingPhone(s) =>
            IF C8_TenDigits(remove(remove(strip(m), " "), "-"))
            THEN C8_Leaves(s, m, verification_process(s, m, "none"))
            ELSE C8_Reprompts(s, m, verification_process(s, m, "none"))

\* the profile whose number was sent with a leading tab and an inner space
\* was looked up and bound
C8_Witness ==
    \E id \in DOMAIN sessions :
        /\ sessions[id].verification_state = "confirm_identity"
        /\ sessions[id].customer_id = Some("C003")

\* a step in which an upload for session id was suspended in
\* "await file.read()"
UploadSuspended(id) == uploading'[id] > uploading[id]

\* the record of id after the step is the result of one whole turn on the
\* record before the step
C9_WholeTurn(id) ==
    \/ /\ UploadRan(id)
       /\ sessions'[id] =
              process_salary_upload([sessions[id] EXCEPT !.salary_slip_uploaded = Some(TRUE)],
                                    "none").session
    \/ /\ ~UploadRan(id)
       /\ \E m \in Inputs : sessions'[id] = process_message(sessions[id], m, "none").session

\* C9: at most one turn is applied to a session at a time.  The only
\* suspension point of a handler lies before its first read or write of
\* the record, so a request that is suspended leaves every record as it
\* is, and every change of a record is the result of one whole turn
\* (chat message or resumed upload) applied to the record as the previous
\* turn left it, never to an older copy.
C9_TurnsDoNotInterleave ==
    [][\A id \in SessionIds :
          /\ UploadSuspended(id) => sessions' = sessions /\ detached' = detached
          /\ (/\ id \in (DOMAIN sessions) \cap (DOMAIN sessions')
              /\ sessions'[id] # sessions[id]) => C9_WholeTurn(id)]_vars

\* two uploads for one session overlapped: one has resumed and completed
\* its turn while the other is still suspended
C9_Witness ==
    \E id \in DOMAIN sessions :
        /\ uploading[id] > 0
        /\ sessions[id].salary_slip_uploaded = Some(TRUE)
        /\ sessions[id].current_agent \in {"completed", "ended"}

Failures == {"customer_lookup", "offer_lookup", "sanction"}

StageDecision(session) ==
    <<session.current_agent, session.sales_state, session.verification_state,
      session.underwriting_state, session.loan_status, session.approved_amount>>

C10_Kept(s, turn) == turn.raised => StageDecision(turn.session) = StageDecision(s)

\* C10: when the customer lookup, the offer lookup or the document issuance
\* fails during a turn, current_agent, sales_state, verification_state,
\* underwriting_state, loan_status and approved_amount are the same after
\* the failed turn as before it.
C10_FailedTurnKeepsDecision ==
    \A s \in Records :
        /\ \A m \in Inputs : \A f \in Failures : C10_Kept(s, process_message(s, m, f))
        /\ (s.current_agent = "underwriting" /\ s.underwriting_state = "awaiting_salary_slip")
               => C10_Kept(s, process_salary_upload(
                                  [s EXCEPT !.salary_slip_uploaded = Some(TRUE)], "sanction"))

\* the record as upload_salary hands it to the master agent
Marked(session) == [session EXCEPT !.salary_slip_uploaded = Some(TRUE)]

C11_ApprovalKept(s, turn) ==
    (turn.raised /\ turn.sanction) =>
        /\ turn.session.loan_status = "approved"
        /\ turn.session.approved_amount = Some(Requested(s))

\* C11: a failure of the document-issuance call does not corrupt the
\* approval already committed: after a turn (chat message or upload) in
\* which underwriting approved and generate_sanction_letter then failed,
\* the session has loan_status = approved and approved_amount equal to the
\* requested amount.
C11_FailedIssuanceKeepsApproval ==
    \A s \in Records :
        /\ \A m \in Inputs : C11_ApprovalKept(s, process_message(s, m, "sanction"))
        /\ C11_ApprovalKept(s, process_salary_upload(Marked(s), "sanction"))

\* a turn approved a requested amount and was left by the failing
\* issuance: the record stays in the transient stage with its approval
C11_Witness ==
    \E id \in DOMAIN sessions :
        /\ sessions[id].current_agent = "sanction"
        /\ sessions[id].loan_amount # Absent
        /\ sessions[id].sanction_letter_filename = Absent
        /\ issued[id] = 1

Waiting(session) ==
    /\ session.current_agent = "underwriting"
    /\ session.underwriting_state = "awaiting_salary_slip"

C12_Reminder(s, turn) ==
    /\ turn.session = s
    /\ turn.response.message = <<"upload_reminder">>
    /\ turn.response.show_upload
    /\ ~turn.response.show_download
    /\ ~turn.response.session_ended
    /\ ~turn.raised

\* C12: while a session is in the underwriting waiting sub-state (stage
\* underwriting, underwriting_state = awaiting_salary_slip), every chat
\* message is answered with the static upload reminder with the upload
\* flag set and leaves the entire session record unchanged, whatever the
\* text; the record being unchanged, this repeats for any number of
\* messages.
C12_WaitingIgnoresText ==
    \A s \in Records : \A m \in Inputs : \A f \in {"none"} \cup Failures :
        Waiting(s) => C12_Reminder(s, process_message(s, m, f))

\* a session reached the waiting sub-state in six chat turns and, with no
\* other session created and no upload suspended, received a further
\* request
C12_Witness ==
    \E id \in DOMAIN sessions :
        /\ Waiting(sessions[id])
        /\ next_uuid = 1
        /\ uploading[id] = 0
        /\ turns > 6

\* the payment of the session's amount, tenure and rate, in paise
C13_Payment(s) ==
    Emi(Requested(s), Get(s.interest_rate, DEFAULT_RATE), Get(s.loan_tenure, DEFAULT_TENURE))

\* calculate_max_loan_for_emi at every payment cap (in paise), rate and
\* tenure a session can hold
C13_max_principal ==
    {<<k, calculate_max_loan_for_emi(Num(k[1]), k[2], k[3])>> :
        k \in {50 * salary : salary \in SalaryValues} \X RateValues \X TenureValues}

C13_MaxPrincipal(max_emi, annual_rate, tenure_months) ==
    (CHOOSE e \in C13_max_principal : e[1] = <<max_emi, annual_rate, tenure_months>>)[2]

\* half the salary of the bound profile, in paise
C13_HalfSalary(s) == 50 * CustomerField(s, "salary")

C13_Approved(s, r) ==
    /\ r.response.decision = "approved"
    /\ r.response.reason = "salary_verified"
    /\ r.response.proceed_to_sanction
    /\ r.session.loan_status = "approved"
    /\ r.session.approved_amount = Some(Requested(s))

C13_Rejected(s, r) ==
    /\ r.response.decision = "rejected"
    /\ r.response.reason = "high_emi_ratio"
    /\ ~r.response.proceed_to_sanction
    /\ r.session.loan_status = "rejected"
    /\ r.response.detail =
          Some(C13_MaxPrincipal(C13_HalfSalary(s), Get(s.interest_rate, DEFAULT_RATE),
                                Get(s.loan_tenure, DEFAULT_TENURE)))

C13_Decides(s, payment, r) ==
    IF ~payment.nan /\ payment.v <= C13_HalfSalary(s)
    THEN C13_Approved(s, r)
    ELSE C13_Rejected(s, r)

\* C13: process_salary_verification decides by comparing the payment
\* computed from the session's amount, tenure and rate against half the
\* bound profile's salary: payment <= 0.5 x salary yields
\* approved/salary_verified with approved_amount = requested amount and the
\* proceed-to-issuance signal; otherwise it yields rejected/high_emi_ratio
\* and reports calculate_max_loan_for_emi(0.5 x salary, rate, tenure) as the
\* maximum principal.
C13_SalaryVerificationDecides ==
    \A s \in Records : C13_Decides(s, C13_Payment(s), process_salary_verification(s))

\* an application that underwriting sent to salary verification was
\* rejected there after the upload
C13_Witness ==
    \E id \in DOMAIN sessions :
        /\ sessions[id].salary_slip_uploaded = Some(TRUE)
        /\ sessions[id].calculated_emi # Absent
        /\ sessions[id].loan_status = "rejected"
        /\ sessions[id].current_agent = "ended"
        /\ CustomerField(sessions[id], "credit_score") >= MIN_CREDIT_SCORE
        /\ FLe(Requested(sessions[id]),
               Rupees(2 * CustomerField(sessions[id], "preapproved_limit")))

\* C14: a salary <= 0 (including a session with no bound profile, whose
\* salary defaults to 0) is a guaranteed reject in the income-verification
\* variant: whenever an upload runs process_salary_verification on a record
\* whose salary is <= 0, the outcome is rejected and never approved.
C14_NoSalaryAlwaysRejected ==
    [][\A id \in DOMAIN sessions :
          (UploadRan(id) /\ CustomerField(sessions[id], "salary") <= 0)
              => /\ sessions'[id].loan_status = "rejected"
                 /\ sessions'[id].current_agent = "ended"]_vars

C15_NoProfile(s) ==
    s.customer = Absent /\ s.customer_id = Absent /\ s.offer = Absent

C15_ProfileOf(s, customer) ==
    /\ s.customer = Some(customer)
    /\ s.customer_id = Some(customer.id)
    /\ s.offer = find_offer_by_customer_id(customer.id)

\* C15: the customer profile in a session is never partially populated:
\* in every reachable state the profile-derived fields (customer,
\* customer_id, offer) are either all those of one matched customer or all
\* absent; in particular, after a negative answer in confirm_identity the
\* machine is back in ask_phone with no data of the rejected profile left.
C15_ProfileAllOrNothing ==
    \A s \in Records :
        \/ C15_NoProfile(s)
        \/ \E i \in 1..Len(load_customers) : C15_ProfileOf(s, load_customers[i])

C16_Consistent(s) ==
    /\ s.current_agent = "sales" => s.sales_state \in {"ask_amount", "ask_tenure", "confirm"}
    /\ s.current_agent = "verification" =>
           /\ s.sales_state = "complete"
           /\ s.verification_state \in {"ask_phone", "confirm_identity", "not_found"}
    /\ s.current_agent = "underwriting" =>
           /\ s.verification_state = "complete"
           /\ s.underwriting_state = "awaiting_salary_slip"
    /\ s.current_agent = "completed" =>
           /\ s.verification_state = "complete"
           /\ s.underwriting_state = "approved"
    /\ s.current_agent # "sanction"

\* C16: stage and sub-state are jointly consistent after every completed
\* turn (chat message or upload event): stage intake implies sales_state in
\* {ask_amount, ask_tenure, confirm}; stage verification implies
\* sales_state = complete and verification_state in {ask_phone,
\* confirm_identity, not_found}; stage underwriting implies
\* verification_state = complete and underwriting_state =
\* awaiting_salary_slip; stage completed implies verification_state =
\* complete and underwriting_state = approved; and the transient stage
\* 'sanction' is never the stage between turns.
C16_StageAndSubStateConsistent ==
    \A id \in DOMAIN sessions : C16_Consistent(sessions[id])

C17_Completed(turn) ==
    /\ turn.session.current_agent = "completed"
    /\ turn.session.loan_status = "approved"
    /\ turn.sanction
    /\ turn.response.show_download
    /\ turn.response.download_file # Absent
    /\ turn.response.download_file = turn.session.sanction_letter_filename
    /\ ~turn.response.session_ended

C17_Ended(turn) ==
    /\ turn.session.current_agent = "ended"
    /\ turn.session.loan_status = "rejected"
    /\ ~turn.sanction
    /\ turn.response.session_ended
    /\ ~turn.response.show_download

\* C17: an upload-completed event received in the underwriting waiting
\* sub-state always resolves the session within that same turn: after
\* process_salary_upload the stage is either completed (decision approved,
\* document issued, download flag and reference returned) or ended
\* (decision rejected, session-ended flag returned), never still
\* underwriting.
C17_UploadResolves ==
    \A s \in Records :
        Waiting(s) => \/ C17_Completed(process_salary_upload(Marked(s), "none"))
                      \/ C17_Ended(process_salary_upload(Marked(s), "none"))

\* an application that waited for the salary slip was approved by the
\* upload and completed
C17_Witness ==
    \E id \in DOMAIN sessions :
        /\ sessions[id].salary_slip_uploaded = Some(TRUE)
        /\ sessions[id].calculated_emi # Absent
        /\ sessions[id].current_agent = "completed"
        /\ issued[id] = 1
        /\ FGt(Requested(sessions[id]),
               Rupees(CustomerField(sessions[id], "preapproved_limit")))

\* text m fails the validation of the sub-state record s is in
C18_Invalid(s, m) ==
    \/ /\ s.current_agent = "sales"
       /\ \/ s.sales_state = "ask_amount" /\ ~C7_AmountInRange(float(AmountText(m)))
          \/ s.sales_state = "ask_tenure" /\ ~C7_TenureInRange(int(m))
          \/ s.sales_state = "confirm" /\ strip(lower(m)) \notin SALES_YES \cup SALES_NO
    \/ /\ s.current_agent = "verification"
       /\ \/ /\ s.verification_state = "ask_phone"
             /\ ~C8_TenDigits(remove(remove(strip(m), " "), "-"))
          \/ /\ s.verification_state = "confirm_identity"
             /\ strip(lower(m)) \notin VERIFY_YES \cup VERIFY_NO

C18_Reprompted(s, turn) ==
    /\ turn.session = s
    /\ ~turn.response.session_ended
    /\ ~turn.raised

\* C18: input-validation failures are recovered locally with no retry
\* limit: any unparsable or out-of-range input in ask_amount, ask_tenure
\* or ask_phone, and any unrecognised reply in confirm or confirm_identity,
\* yields a re-prompt and leaves the whole session record (stage,
\* sub-states and collected data) unchanged, and never ends the session;
\* the record being unchanged, this repeats for any number of invalid
\* inputs.
C18_InvalidInputReprompts ==
    \A s \in Records : \A m \in Inputs :
        C18_Invalid(s, m) => C18_Reprompted(s, process_message(s, m, "none"))

\* C19 as stated: for every principal, annual rate > 0 and term > 0, the
\* payment returned by calculate_emi (rounded to 2 decimals) multiplied by
\* the term is at least the principal.
C19_PaymentsCoverPrincipal ==
    calc.emi # Absent => calc.emi[1].v * calc.tenure_months >= calc.principal

\* C19, amended: for every principal >= 0, annual rate > 0 and term > 0,
\* the payment returned by calculate_emi multiplied by the term is at least
\* the principal less 0.005 per instalment, the most that rounding the
\* payment to 2 decimals can take from each instalment.  (Amounts are in
\* paise, so 0.005 is half a unit.)
C19_PaymentsCoverPrincipalRounded ==
    calc.emi # Absent =>
        2 * calc.emi[1].v * calc.tenure_months >= 2 * calc.principal - calc.tenure_months

\* the payment of 100.00 at 0.01 % over 3 months was computed: 33.33,
\* three of which are 99.99
C19_Witness ==
    /\ calc.emi # Absent
    /\ calc.principal > 0
    /\ calc.emi[1].v * calc.tenure_months < calc.principal

C20_Distance(a, b) == IF a >= b THEN a - b ELSE b - a

\* C20: calculate_max_loan_for_emi is the inverse of calculate_emi: for
\* every principal P, rate r > 0 and term n,
\* calculate_max_loan_for_emi(calculate_emi(P, r, n), r, n) equals P within
\* rounding tolerance, that is within 0.5 (the result is rounded to the
\* whole rupee) plus 0.005 per instalment (the payment is rounded to 2
\* decimals and weighs less than n in the inverse).
C20_RoundTrip ==
    calc.max_loan # Absent =>
        /\ ~calc.max_loan[1].nan
        /\ 2 * C20_Distance(calc.max_loan[1].v, calc.principal) <= 100 + calc.tenure_months

\* the round trip of a principal that is no whole number of rupees was
\* computed
C20_Witness ==
    /\ calc.max_loan # Absent
    /\ calc.principal % 100 # 0
    /\ calc.tenure_months > 1

ConfirmingIdentity(session) ==
    /\ session.current_agent = "verification"
    /\ session.verification_state = "confirm_identity"

C21_Approved(turn) ==
    /\ turn.session.current_agent = "completed"
    /\ turn.session.loan_status = "approved"
    /\ turn.sanction
    /\ turn.response.show_download

C21_Waiting(turn) ==
    /\ Waiting(turn.session)
    /\ turn.session.loan_status = "pending_verification"
    /\ turn.response.show_upload
    /\ ~turn.sanction

C21_Ended(turn) ==
    /\ turn.session.current_agent = "ended"
    /\ turn.session.loan_status = "rejected"
    /\ turn.response.session_ended
    /\ ~turn.sanction

C21_Evaluated(turn) ==
    /\ turn.underwriting = "process"
    /\ turn.session.calculated_emi # Absent
    /\ C21_Approved(turn) \/ C21_Waiting(turn) \/ C21_Ended(turn)

\* C21: on the message turn in which the user confirms their identity, the
\* rule evaluator runs within that same turn, and at the end of the turn
\* the stage is completed (approved, document issued), underwriting-waiting
\* (income proof requested, upload flag set) or ended (rejected,
\* session-ended flag set); the stage is never still verification.
C21_ConfirmationRunsUnderwriting ==
    \A s \in Records : \A m \in Inputs :
        (ConfirmingIdentity(s) /\ strip(lower(m)) \in VERIFY_YES)
            => C21_Evaluated(process_message(s, m, "none"))

\* an identity was confirmed and the rules rejected the application in the
\* same turn, with no upload involved
C21_Witness ==
    \E id \in DOMAIN sessions :
        /\ sessions[id].kyc_verified
        /\ sessions[id].current_agent = "ended"
        /\ sessions[id].loan_status = "rejected"
        /\ sessions[id].salary_slip_uploaded = Absent

C22_Affirmative ==
    {<<"y", "e", "s">>, <<"y">>, <<"p", "r", "o", "c", "e", "e", "d">>, <<"o", "k">>,
     <<"s", "u", "r", "e">>, <<"y", "e", "a", "h">>}
C22_Negative ==
    {<<"n", "o">>, <<"n">>, <<"c", "a", "n", "c", "e", "l">>, <<"s", "t", "o", "p">>}

C22_Outcome(s, reply, turn) ==
    IF reply \in C22_Affirmative
    THEN /\ turn.session.sales_state = "complete"
         /\ turn.session.current_agent = "verification"
         /\ ~turn.response.session_ended
    ELSE IF reply \in C22_Negative
    THEN /\ turn.session.sales_state = "cancelled"
         /\ turn.session.current_agent = "ended"
         /\ turn.response.session_ended
    ELSE /\ turn.session.sales_state = "confirm"
         /\ turn.session.current_agent = "sales"
         /\ ~turn.response.session_ended

\* C22: in intake sub-state confirm, a reply in the affirmative set {yes, y,
\* proceed, ok, sure, yeah} (case-insensitive, trimmed) moves the intake
\* machine to complete and the stage to verification in the same turn; a
\* reply in the negative set {no, n, cancel, stop} moves the intake machine
\* to cancelled and the stage to ended with the session-ended flag set; no
\* other reply changes the sub-state or the stage.
C22_ConfirmReplies ==
    \A s \in Records : \A m \in Inputs :
        (s.current_agent = "sales" /\ s.sales_state = "confirm")
            => C22_Outcome(s, strip(lower(m)), process_message(s, m, "none"))

\* an application was cancelled in confirm
C22_Witness ==
    \E id \in DOMAIN sessions :
        /\ sessions[id].sales_state = "cancelled"
        /\ sessions[id].current_agent = "ended"
        /\ sessions[id].loan_tenure # Absent

NotFound(session) ==
    /\ session.current_agent = "verification"
    /\ session.verification_state = "not_found"

C23_Outcome(affirmative, turn) ==
    IF affirmative
    THEN /\ turn.session.verification_state = "ask_phone"
         /\ turn.session.current_agent = "verification"
         /\ ~turn.response.session_ended
    ELSE /\ turn.session.verification_state = "ended"
         /\ turn.session.current_agent = "ended"
         /\ turn.response.session_ended

\* the affirmative replies of the verification machine
C23_Affirmative ==
    {<<"y", "e", "s">>, <<"y">>, <<"c", "o", "r", "r", "e", "c", "t">>,
     <<"r", "i", "g", "h", "t">>, <<"o", "k">>}

\* C23 as stated: in verification sub-state not_found, an affirmative reply
\* returns the machine to ask_phone with the stage remaining verification;
\* any other reply moves the verification machine to ended and, in the same
\* turn, the stage to ended with the session-ended flag set.
C23_NotFoundReplies ==
    \A s \in Records : \A m \in Inputs :
        NotFound(s) => C23_Outcome(strip(lower(m)) \in C23_Affirmative,
                                   process_message(s, m, "none"))

\* C23, amended: in not_found only the replies yes and y (case-insensitive,
\* trimmed) return the machine to ask_phone with the stage remaining
\* verification; any other reply, the other affirmative words ok, correct
\* and right included, moves the verification machine to ended and, in the
\* same turn, the stage to ended with the session-ended flag set.
C23_NotFoundYesOnly ==
    \A s \in Records : \A m \in Inputs :
        NotFound(s) => C23_Outcome(strip(lower(m)) \in {<<"y", "e", "s">>, <<"y">>},
                                   process_message(s, m, "none"))

\* a reply in not_found ended the session
C23_Witness ==
    \E id \in DOMAIN sessions :
        /\ sessions[id].verification_state = "ended"
        /\ sessions[id].current_agent = "ended"

\* a step in which uuid4 handed out an identifier
Created == next_uuid' # next_uuid

C24_Started(session) ==
    /\ session.current_agent = "sales"
    /\ session.sales_state = "ask_amount"
    /\ session.loan_amount = Absent
    /\ session = [get_initial_state EXCEPT !.current_agent = "sales",
                                           !.conversation_stage = "collecting_loan_details"]

\* C24: a chat request with a missing or unknown session identifier creates
\* exactly one new session record under a freshly generated identifier, and
\* that first turn takes it from greeting to intake whatever the message
\* text: after the turn the session is in stage intake with sales_state =
\* ask_amount and no loan amount stored.  A chat request with a known
\* identifier operates on the existing record and creates none.
C24_FirstTurnStartsIntake ==
    [][IF Created
       THEN \E id \in SessionIds \ ((DOMAIN sessions) \cup (DOMAIN detached)) :
                /\ uploading[id] = 0
                /\ DOMAIN sessions' = (DOMAIN sessions) \cup {id}
                /\ C24_Started(sessions'[id])
                /\ \A other \in DOMAIN sessions : sessions'[other] = sessions[other]
       ELSE (DOMAIN sessions') \subseteq (DOMAIN sessions)]_vars

\* after a reset the next chat request, its identifier now unknown, started
\* a second session
C24_Witness ==
    /\ next_uuid = 2
    /\ DOMAIN sessions = {2}
    /\ C24_Started(sessions[2])

\* the step changed the record of id, put it into the registry or removed
\* it, or issued a document for it
Touched(id) ==
    \/ (id \in DOMAIN sessions) # (id \in DOMAIN sessions')
    \/ id \in (DOMAIN sessions) \cap (DOMAIN sessions') /\ sessions'[id] # sessions[id]
    \/ (id \in DOMAIN detached) # (id \in DOMAIN detached')
    \/ id \in (DOMAIN detached) \cap (DOMAIN detached') /\ detached'[id] # detached[id]
    \/ issued'[id] # issued[id]
    \/ uploading'[id] # uploading[id]

\* C25: sessions are isolated: a chat turn, upload event or reset addressed
\* to session identifier A leaves the record of every other session B
\* unchanged and does not remove B from the registry, under any
\* interleaving of requests for A and B: no step touches two sessions.
C25_SessionsIsolated ==
    [][\A a \in SessionIds : \A b \in SessionIds \ {a} : Touched(a) => ~Touched(b)]_vars

\* two sessions were driven in turn and hold different applications
C25_Witness ==
    /\ DOMAIN sessions = {1, 2}
    /\ sessions[1].loan_amount # Absent
    /\ sessions[2].loan_amount # Absent
    /\ sessions[1].loan_amount # sessions[2].loan_amount

C26_Stored(s, turn) ==
    turn.sanction => turn.session.calculated_emi = Some(C13_Payment(s))

\* C26: whenever document issuance is invoked for a session, on the rule-2
\* path and on the income-verification path alike, the payment persisted
\* in the session (calculated_emi, the value printed in the document) is
\* present and equals the payment of the session's amount, rate and tenure
\* at the time of the approving evaluation.
C26_IssuedPaymentStored ==
    \A s \in Records :
        /\ \A m \in Inputs : C26_Stored(s, process_message(s, m, "none"))
        /\ C26_Stored(s, process_salary_upload(Marked(s), "none"))

\* the bound customer's credit score is below the minimum
C27_LowScore(s) ==
    /\ s.customer # Absent
    /\ CustomerField(s, "credit_score") < MIN_CREDIT_SCORE

\* C27: a session whose bound customer has a credit score below 700 never
\* becomes approved: over every sequence of chat messages and
\* salary-upload events, such a session never has loan_status = approved,
\* never reaches stage completed and never triggers document issuance.
C27_LowScoreNeverApproved ==
    \A id \in (DOMAIN sessions) \cup (DOMAIN detached) :
        C27_LowScore(Held(id)) =>
            /\ Held(id).loan_status # "approved"
            /\ Held(id).current_agent # "completed"
            /\ Held(id).sanction_letter_filename = Absent
            /\ issued[id] = 0

\* the rate of the offer made to the customer, the default without one
C28_RateOf(customer_id) ==
    LET offer == find_offer_by_customer_id(customer_id)
    IN  IF offer = Absent THEN DEFAULT_RATE ELSE offer[1].interest_rate

\* the rate the underwriting functions read from the record
C28_RateUsed(session) == Get(session.interest_rate, DEFAULT_RATE)

C28_Used(turn) ==
    (turn.underwriting # "none" /\ turn.session.customer # Absent) =>
        C28_RateUsed(turn.session) = C28_RateOf(CustomerField(turn.session, "id"))

\* C28: whenever underwriting runs for a session with a bound customer,
\* the interest rate it uses is that customer's offer rate if an offer
\* exists for that customer and the default 10.5 otherwise; this holds
\* also when the user earlier rejected a different matched identity in
\* confirm_identity and then entered another phone number.
C28_RateIsCustomersOffer ==
    \A s \in Records :
        /\ \A m \in Inputs : C28_Used(process_message(s, m, "none"))
        /\ C28_Used(process_salary_upload(Marked(s), "none"))

C29_Agree(turn) ==
    /\ turn.response.session_ended <=> turn.session.current_agent = "ended"
    /\ turn.response.show_download <=> turn.session.current_agent = "completed"
    /\ turn.response.show_download =>
           /\ turn.response.download_file # Absent
           /\ turn.response.download_file = turn.session.sanction_letter_filename
    /\ turn.response.show_upload <=> Waiting(turn.session)

\* C29: the response flags of every turn (process_message or
\* process_salary_upload) agree with the session state left by that turn:
\* session_ended is true if and only if the stage is ended; show_download
\* is true if and only if the stage is completed, in which case
\* download_file is the session's stored document filename; show_upload is
\* true if and only if the stage is underwriting with underwriting_state =
\* awaiting_salary_slip.
C29_FlagsAgreeWithState ==
    \A s \in Records :
        /\ \A m \in Inputs : C29_Agree(process_message(s, m, "none"))
        /\ C29_Agree(process_salary_upload(Marked(s), "none"))

\* a session approved at once holds its document and, with no other
\* session created and no upload made, answered a further message
C29_Witness ==
    \E id \in DOMAIN sessions :
        /\ sessions[id].current_agent = "completed"
        /\ sessions[id].sanction_letter_filename # Absent
        /\ sessions[id].salary_slip_uploaded = Absent
        /\ sessions[id].kyc_verified
        /\ next_uuid = 1
        /\ turns > 6

\* the record of id was removed from the registry and is held only by a
\* suspended upload
C30_Removed(id) == id \notin DOMAIN sessions /\ id \in DOMAIN detached

\* C30: a session record removed from the registry by reset is never
\* mutated afterwards and no document is issued for it, even when an
\* upload request for that session had already passed its
\* session-existence check and was suspended reading the uploaded file
\* when the reset (or an intervening chat turn) ran.
C30_RemovedRecordUntouched ==
    [][\A id \in SessionIds :
          C30_Removed(id) =>
              /\ issued'[id] = issued[id]
              /\ id \in DOMAIN detached' => detached'[id] = detached[id]]_vars

\* the step left every session record, the registry, the suspended uploads
\* and the issued documents as they were, and created no session
C31_NothingChanged == UNCHANGED <<sessions, detached, uploading, issued, next_uuid>>

\* C31: a rejected upload request changes nothing: an upload for an
\* identifier not in the registry fails with an invalid-session error
\* without creating a session, and an upload with a disallowed file type
\* fails with an error before the session is touched, so in both cases
\* every session record and the registry are unchanged and underwriting is
\* not invoked; reset of an unknown identifier succeeds and leaves the
\* registry unchanged.
C31_RejectedRequestChangesNothing ==
    [][/\ \A id \in RequestIds : \A ct \in ContentTypes :
              (id \notin DOMAIN sessions \/ ct \notin CONTENT_TYPES) =>
                  /\ upload_status(sessions, id, ct) = 400
                  /\ upload_salary(id, ct) => C31_NothingChanged
       /\ \A id \in RequestIds \ DOMAIN sessions :
              reset_session(id) => C31_NothingChanged]_vars

\* the only session is as its first turn left it after two further
\* requests, with no upload suspended and no document issued
C31_Witness ==
    /\ next_uuid = 1
    /\ DOMAIN sessions = {1}
    /\ C24_Started(sessions[1])
    /\ turns = 3
    /\ \A id \in SessionIds : uploading[id] = 0 /\ issued[id] = 0
    /\ detached = <<>>
====
